---- MODULE Spec2Model ----
(***************************************************************************)
(* Model of the result-commit pipeline of src/source/main.py:             *)
(* LogAnalyzerApp.analyze_and_post with post_to_database,                 *)
(* rollback_database, upload_to_s3, check_file_exists and delete_log_file.*)
(*                                                                         *)
(* One commit attempt is one run of analyze_and_post.  Every remote call   *)
(* (insert, delete, head_object, put_object) and every local file          *)
(* operation is one step; the answer of the backend or of the file system  *)
(* is a nondeterministic choice over the answers the code distinguishes.   *)
(* The on-screen notifications are recorded in `messages` and are         *)
(* taken to return normally.                                               *)
(***************************************************************************)
EXTENDS Integers, Sequences, FiniteSets, TLC

\* ---------------------------------------------------------------- bounds
MaxCount == 1          \* counters range over 0..MaxCount and the values just above the advisory margin
MaxQuantity == 1       \* job quantities 0..MaxQuantity
MaxSeq == 2            \* archive keys: 0 is the base key, k > 0 the key with suffix -k
MaxAttempts == 2       \* commit attempts made one after the other
MaxWrites == 1         \* changes of the log file by other writers

\* ------------------------------------------------------- program constants
AdvisoryMargin == 10   \* job_quantity + 10
None == 0              \* Python None for record_id / file_name results

Job == "JAN 1"         \* f"{job_month} {job_number}"
Device == "X"          \* self.device_name_entry.get()

Fields == {"job_order", "job_quantity", "programmed", "verified", "device"}

Counts == (0 .. MaxCount) \cup {AdvisoryMargin, AdvisoryMargin + MaxQuantity + 1}
Quantities == 0 .. MaxQuantity
MaxKey == MaxSeq + MaxAttempts   \* no run of the model probes a key beyond this one

VARIABLES
    pc,               \* position inside analyze_and_post
    attempt,          \* number of the current commit attempt
    bucket_name,      \* TRUE iff BUCKET_NAME is set in the environment
    job_quantity, programmed, verified,   \* locals of analyze_and_post
    post_success, record_id,              \* result of post_to_database
    file_name,        \* upload_to_s3: index of the key being probed / written
    success,          \* first component of upload_to_s3's result
    rollback_success, \* result of rollback_database ("none" before it ran)
    handler,          \* which branch runs the rollback: "else", "FileNotFoundError", "Exception"
    inserted_record,  \* post_to_database: response.data[0] (NoRecord: none)
    events,           \* remote calls, source deletions and notifications of this attempt, in order
    db,               \* ids of the rows of table ij_coding_log_ver1
    nextId,           \* next id the record store assigns
    archive,          \* objects in the bucket: key index -> attempt that wrote it (0: older)
    fileExists,       \* the selected log file is on disk
    insertedId,       \* id of the row this attempt's insert created in the store (None: no row)
    removed,          \* os.remove succeeded in this attempt
    log_content,      \* the text in the log file: 1 at first, n + 1 after n changes by other writers
    counted,          \* read_and_analyze_log: the log_content the counters were computed from
    file_content,     \* analyze_and_post: the log_content read for the upload (None: not read)
    peer              \* a second instance of the application inside upload_to_s3 for the same
                      \* key; denied: one of its probes was answered 403

vars == <<pc, attempt, bucket_name, job_quantity, programmed, verified,
          post_success, record_id, file_name, success, rollback_success,
          handler, inserted_record, events, db, nextId, archive,
          fileExists, insertedId, removed, log_content, counted,
          file_content, peer>>

store == <<db, nextId, archive>>
outside == <<log_content, peer>>

\* one entry of events: a call with its argument and its answer, or a
\* notification with its title and the part of its text that varies
Call(op, arg, res) == [op |-> op, arg |-> arg, res |-> res]
Message(text) == Call("message", None, text)
\* a notification whose text names the database record (ID: {record_id})
MessageWithId(text, id) == Call("message", id, text)
NoRecord == [key \in {} |-> None]

\* ------------------------------------------------------------ pure helpers

\* data = {...} of post_to_database
Data(job, quantity, p, v) ==
    [job_order |-> job, job_quantity |-> quantity, programmed |-> p,
     verified |-> v, device |-> Device]

\* the device field is not compared
EchoMatchesButDevice(row, data) ==
    \A key \in (DOMAIN data) \ {"device"} :
        key \in DOMAIN row /\ row[key] = data[key]

\* all(inserted_record[key] == data[key] for key in data); a missing key
\* raises KeyError, which post_to_database turns into failure
EchoMatches(row, data) ==
    \A key \in DOMAIN data : key \in DOMAIN row /\ row[key] = data[key]

\* the verified counter is compared first
BelowWhichVerifiedFirst(p, v, quantity) ==
    IF v >= quantity
    THEN IF p >= quantity THEN "none" ELSE "programmed"
    ELSE "verified"

\* the two nested ifs of analyze_and_post: which counter is below the quantity
BelowWhich(p, v, quantity) ==
    IF p >= quantity
    THEN IF v >= quantity THEN "none" ELSE "verified"
    ELSE "programmed"

\* the attempt goes on to the insert whatever the threshold said
AfterThresholdFallsThrough(which) == "post"

\* where analyze_and_post continues after the threshold
AfterThreshold(which) == IF which = "none" THEN "post" ELSE "done"

\* the alert is shown only when both counters are above the margin
AdvisoryBoth(p, v, quantity) ==
    p > quantity + AdvisoryMargin /\ v > quantity + AdvisoryMargin

\* if programmed > job_quantity + 10 or verified > job_quantity + 10
Advisory(p, v, quantity) ==
    p > quantity + AdvisoryMargin \/ v > quantity + AdvisoryMargin

\* the head_object answers for a key: found or not found by the content of
\* the bucket, permission denied or another error at any time
HeadAnswers(key) ==
    (IF key \in DOMAIN archive THEN {"200"} ELSE {"404"}) \cup {"403", "500"}

\* every error of head_object is taken as "the file does not exist"
CheckFileExistsSwallows(answer) ==
    IF answer = "200" THEN "true" ELSE "false"

\* check_file_exists: True, False, or the error raised again
CheckFileExists(answer) ==
    CASE answer = "200" -> "true"
      [] answer = "404" -> "false"
      [] answer = "403" -> "false"
      [] OTHER -> "raise"

\* ------------------------------------------------------------------- Init
Init ==
    /\ pc = "idle"
    /\ attempt = 1
    /\ bucket_name \in BOOLEAN
    /\ job_quantity = 0 /\ programmed = 0 /\ verified = 0
    /\ post_success = FALSE /\ record_id = None
    /\ file_name = 0
    /\ success = FALSE
    /\ rollback_success = "none"
    /\ handler = "none"
    /\ inserted_record = NoRecord
    /\ events = <<>>
    /\ db = {}
    /\ nextId = 1
    /\ \E n \in 0 .. MaxSeq - 1 : archive = [k \in 0 .. n - 1 |-> 0]
    /\ fileExists = TRUE
    /\ insertedId = None
    /\ removed = FALSE
    /\ log_content = 1
    /\ counted = None
    /\ file_content = None
    /\ peer = [pc |-> "off", file_name |-> 0, denied |-> FALSE]

\* ---------------------------------------------------------------- actions

\* analyze_and_post up to the call of post_to_database: read_and_analyze_log
\* yields the counters, then the threshold policy and the advisory
AnalyzeAndPost ==
    /\ pc = "idle"
    /\ fileExists
    /\ \E q \in Quantities, p \in Counts, v \in Counts :
        /\ job_quantity' = q /\ programmed' = p /\ verified' = v
        /\ counted' = log_content
        /\ events' =
              CASE BelowWhich(p, v, q) = "programmed" ->
                      <<Message("Condition Not Met/programmed")>>
                [] BelowWhich(p, v, q) = "verified" ->
                      <<Message("Condition Not Met/verified")>>
                [] OTHER ->
                      IF Advisory(p, v, q) THEN <<Message("Alert")>> ELSE <<>>
        /\ pc' = AfterThreshold(BelowWhich(p, v, q))
    /\ UNCHANGED <<outside, file_content, attempt, bucket_name, post_success, record_id, file_name,
                   success, rollback_success, handler, inserted_record, store,
                   fileExists, insertedId, removed>>

\* the rows the backend may store and echo for a submitted record: the
\* record itself, or the record with one field changed or left out
WithId(data, id) ==
    [k \in Fields \cup {"id"} |-> IF k = "id" THEN id ELSE data[k]]
Altered(row, f) ==
    [row EXCEPT ![f] = IF f \in {"job_order", "device"} THEN "?" ELSE @ + 1]
Without(row, f) == [k \in (DOMAIN row) \ {f} |-> row[k]]
StoredRows(data, id) ==
    {WithId(data, id)}
      \cup {Altered(WithId(data, id), f) : f \in Fields}
      \cup {Without(WithId(data, id), f) : f \in Fields}

\* post_to_database and the branch of analyze_and_post on its result
PostToDatabase ==
    /\ pc = "post"
    /\ LET data == Data(Job, job_quantity, programmed, verified) IN
       \/ \E res \in {"raise", "empty"} :      \* except Exception / no response.data
            /\ events' = events \o <<Call("insert", None, res),
                                     Message("Error/Failed to post")>>
            /\ inserted_record' = NoRecord
            /\ post_success' = FALSE /\ record_id' = None
            /\ pc' = "done"
            /\ UNCHANGED <<db, nextId, insertedId>>
       \/ \E row \in StoredRows(data, nextId) :
            /\ db' = db \cup {row["id"]}
            /\ nextId' = nextId + 1
            /\ insertedId' = row["id"]
            /\ inserted_record' = row
            /\ IF EchoMatches(row, data)
               THEN /\ post_success' = TRUE
                    /\ record_id' = row["id"]
                    /\ events' = Append(events, Call("insert", row["id"], "row"))
                    /\ pc' = "read"
               ELSE /\ post_success' = FALSE
                    /\ record_id' = None
                    /\ events' = events \o <<Call("insert", row["id"], "row"),
                                             Message("Error/Failed to post")>>
                    /\ pc' = "done"
    /\ UNCHANGED <<outside, counted, file_content, attempt, bucket_name, job_quantity, programmed, verified,
                   file_name, success, rollback_success, handler, archive,
                   fileExists, removed>>

\* with open(self.file_path, "rb") as file: file_content = file.read()
ReadLogBytes ==
    /\ pc = "read"
    /\ \/ /\ fileExists
          /\ file_content' = log_content
          /\ pc' = "upload"
          /\ UNCHANGED <<handler, fileExists>>
       \/ /\ fileExists' = FALSE              \* FileNotFoundError: the file is gone
          /\ handler' = "FileNotFoundError"
          /\ pc' = "rollback"
          /\ UNCHANGED file_content
       \/ /\ fileExists                       \* any other exception of open/read
          /\ handler' = "Exception"
          /\ pc' = "rollback"
          /\ UNCHANGED <<fileExists, file_content>>
    /\ UNCHANGED <<outside, counted, attempt, bucket_name, job_quantity, programmed, verified,
                   post_success, record_id, file_name, success,
                   rollback_success, inserted_record, events, store,
                   insertedId, removed>>

\* upload_to_s3 up to the key loop: BUCKET_NAME and the base key
UploadToS3 ==
    /\ pc = "upload"
    /\ IF bucket_name
       THEN /\ file_name' = 0
            /\ pc' = "probe"
            /\ UNCHANGED <<success, handler>>
       ELSE /\ success' = FALSE
            /\ handler' = "else"
            /\ pc' = "rollback"
            /\ UNCHANGED file_name
    /\ UNCHANGED <<outside, counted, file_content, attempt, bucket_name, job_quantity, programmed, verified,
                   post_success, record_id, rollback_success, inserted_record,
                   events, store, fileExists, insertedId, removed>>

\* the suffix advances by two
NextKeySkips(key) == key + 2

\* file_name = ...-{sequence}; sequence += 1: the base key is followed by
\* -1, the key -k by -(k+1)
NextKey(key) == key + 1

\* one iteration of: while check_file_exists(...): file_name = ...-{sequence}
ProbeKey ==
    /\ pc = "probe"
    /\ file_name <= MaxKey
    /\ \E answer \in HeadAnswers(file_name) :
        /\ events' = Append(events, Call("exists", file_name, answer))
        /\ CASE CheckFileExists(answer) = "true" ->
                  /\ file_name' = NextKey(file_name)
                  /\ UNCHANGED <<pc, success, handler>>
             [] CheckFileExists(answer) = "false" ->
                  /\ pc' = "put"
                  /\ UNCHANGED <<file_name, success, handler>>
             [] OTHER ->                       \* except Exception: return False
                  /\ success' = FALSE
                  /\ handler' = "else"
                  /\ pc' = "rollback"
                  /\ UNCHANGED file_name
    /\ UNCHANGED <<outside, counted, file_content, attempt, bucket_name, job_quantity, programmed, verified,
                   post_success, record_id, rollback_success, inserted_record,
                   store, fileExists, insertedId, removed>>

\* the put is taken as success without the second probe
PutObjectUnverified ==
    /\ pc = "put"
    /\ \/ /\ archive' = (file_name :> attempt) @@ archive
          /\ events' = events \o <<Call("put", file_name, "ok"), Message("Success")>>
          /\ success' = TRUE
          /\ pc' = "delete"
          /\ UNCHANGED handler
       \/ /\ events' = Append(events, Call("put", file_name, "raise"))
          /\ success' = FALSE
          /\ handler' = "else"
          /\ pc' = "rollback"
          /\ UNCHANGED archive
    /\ UNCHANGED <<outside, counted, file_content, attempt, bucket_name, job_quantity, programmed, verified,
                   post_success, record_id, file_name, rollback_success,
                   inserted_record, db, nextId, fileExists, insertedId, removed>>

\* s3_client.put_object(Bucket, Key=file_name, Body=data)
PutObject ==
    /\ pc = "put"
    /\ \/ /\ archive' = (file_name :> attempt) @@ archive
          /\ events' = Append(events, Call("put", file_name, "ok"))
          /\ pc' = "verify"
          /\ UNCHANGED <<success, handler>>
       \/ /\ events' = Append(events, Call("put", file_name, "raise"))
          /\ success' = FALSE
          /\ handler' = "else"
          /\ pc' = "rollback"
          /\ UNCHANGED archive
    /\ UNCHANGED <<outside, counted, file_content, attempt, bucket_name, job_quantity, programmed, verified,
                   post_success, record_id, file_name, rollback_success,
                   inserted_record, db, nextId, fileExists, insertedId, removed>>

\* the source deletion follows whatever the second probe answered
VerifyUploadUngated ==
    /\ pc = "verify"
    /\ \E answer \in HeadAnswers(file_name) :
        /\ success' = (CheckFileExists(answer) = "true")
        /\ events' = Append(events, Call("exists", file_name, answer))
    /\ pc' = "delete"
    /\ UNCHANGED <<outside, counted, file_content, attempt, bucket_name, job_quantity, programmed, verified,
                   post_success, record_id, file_name, rollback_success,
                   handler, inserted_record, store, fileExists, insertedId,
                   removed>>

\* if not check_file_exists(...): return False ...; return True, file_name
\* and, on success, the "Success" message of analyze_and_post
VerifyUpload ==
    /\ pc = "verify"
    /\ \E answer \in HeadAnswers(file_name) :
        IF CheckFileExists(answer) = "true"
        THEN /\ success' = TRUE
             /\ events' = events \o <<Call("exists", file_name, answer),
                                      Message("Success")>>
             /\ pc' = "delete"
             /\ UNCHANGED handler
        ELSE /\ success' = FALSE           \* failed verification, or except ClientError
             /\ events' = Append(events, Call("exists", file_name, answer))
             /\ handler' = "else"
             /\ pc' = "rollback"
    /\ UNCHANGED <<outside, counted, file_content, attempt, bucket_name, job_quantity, programmed, verified,
                   post_success, record_id, file_name, rollback_success,
                   inserted_record, store, fileExists, insertedId, removed>>

\* delete_log_file(self.file_path) and the "Log File Deleted" message
DeleteLogFile ==
    /\ pc = "delete"
    /\ \/ /\ fileExists' = FALSE              \* os.path.isfile is false
          /\ events' = events \o <<Call("deleteSource", None, "not a file"),
                                   Message("Log File Deleted")>>
          /\ pc' = "done"
          /\ UNCHANGED <<removed, handler>>
       \/ /\ fileExists                       \* os.chmod raises, outside the try
          /\ events' = Append(events, Call("deleteSource", None, "chmod raises"))
          /\ handler' = "Exception"
          /\ pc' = "rollback"
          /\ UNCHANGED <<fileExists, removed>>
       \/ /\ fileExists                       \* os.remove succeeds
          /\ fileExists' = FALSE
          /\ removed' = TRUE
          /\ events' = events \o <<Call("deleteSource", None, "removed"),
                                   Message("Log File Deleted")>>
          /\ pc' = "done"
          /\ UNCHANGED handler
       \/ /\ fileExists                       \* os.remove raises, caught and printed
          /\ events' = events \o <<Call("deleteSource", None, "remove raises"),
                                   Message("Log File Deleted")>>
          /\ pc' = "done"
          /\ UNCHANGED <<fileExists, removed, handler>>
    /\ UNCHANGED <<outside, counted, file_content, attempt, bucket_name, job_quantity, programmed, verified,
                   post_success, record_id, file_name, success,
                   rollback_success, inserted_record, store, insertedId>>

\* rollback_database(record_id): delete().eq("id", record_id).execute(),
\* followed by the notification `text` (an entry of events) of the calling branch
RollbackDatabase(id, result, text) ==
    /\ \/ /\ id \in db                        \* response.data holds the deleted row
          /\ db' = db \ {id}
          /\ events' = events \o <<Call("deleteById", id, "deleted"), text>>
          /\ result = TRUE
       \/ \E res \in {"no data", "raise"} :   \* empty response.data / except Exception
          /\ events' = events \o <<Call("deleteById", id, res), text>>
          /\ db' = db
          /\ result = FALSE
    /\ rollback_success' = IF result THEN "True" ELSE "False"

\* else branch of `if success`: S3 upload failed - rollback database entry
RollbackUploadFailed ==
    /\ pc = "rollback" /\ handler = "else"
    /\ \E result \in BOOLEAN :
        RollbackDatabase(record_id, result,
              IF result THEN Message("Upload Failed - Rolled Back/rolled back")
                        ELSE MessageWithId("Upload Failed - Rolled Back/CRITICAL",
                                           record_id))
    /\ pc' = "done"
    /\ UNCHANGED <<outside, counted, file_content, attempt, bucket_name, job_quantity, programmed, verified,
                   post_success, record_id, file_name, success, handler,
                   inserted_record, nextId, archive, fileExists, insertedId,
                   removed>>

\* the handler reports without calling rollback_database
RollbackFileNotFoundSkipped ==
    /\ pc = "rollback" /\ handler = "FileNotFoundError"
    /\ events' = Append(events, Message("File Error/False"))
    /\ rollback_success' = "False"
    /\ pc' = "done"
    /\ UNCHANGED <<outside, counted, file_content, attempt, bucket_name, job_quantity, programmed, verified,
                   post_success, record_id, file_name, success, handler,
                   inserted_record, store, fileExists, insertedId, removed>>

\* except FileNotFoundError
RollbackFileNotFound ==
    /\ pc = "rollback" /\ handler = "FileNotFoundError"
    /\ \E result \in BOOLEAN :
        RollbackDatabase(record_id, result,
              IF result THEN Message("File Error/True")
                        ELSE Message("File Error/False"))
    /\ pc' = "done"
    /\ UNCHANGED <<outside, counted, file_content, attempt, bucket_name, job_quantity, programmed, verified,
                   post_success, record_id, file_name, success, handler,
                   inserted_record, nextId, archive, fileExists, insertedId,
                   removed>>

\* except Exception
RollbackException ==
    /\ pc = "rollback" /\ handler = "Exception"
    /\ \E result \in BOOLEAN :
        RollbackDatabase(record_id, result,
              IF result THEN Message("Error/True") ELSE Message("Error/False"))
    /\ pc' = "done"
    /\ UNCHANGED <<outside, counted, file_content, attempt, bucket_name, job_quantity, programmed, verified,
                   post_success, record_id, file_name, success, handler,
                   inserted_record, nextId, archive, fileExists, insertedId,
                   removed>>

\* the user selects a log file and presses the button again
NewAttempt ==
    /\ pc = "done"
    /\ attempt < MaxAttempts
    /\ attempt' = attempt + 1
    /\ pc' = "idle"
    /\ job_quantity' = 0 /\ programmed' = 0 /\ verified' = 0
    /\ post_success' = FALSE /\ record_id' = None
    /\ file_name' = 0
    /\ success' = FALSE
    /\ rollback_success' = "none"
    /\ handler' = "none"
    /\ inserted_record' = NoRecord
    /\ events' = <<>>
    /\ fileExists' = TRUE
    /\ insertedId' = None
    /\ removed' = FALSE
    /\ counted' = None /\ file_content' = None
    /\ UNCHANGED <<outside, bucket_name, store>>

Next ==
    \/ AnalyzeAndPost
    \/ PostToDatabase
    \/ ReadLogBytes
    \/ UploadToS3
    \/ ProbeKey
    \/ PutObject
    \/ VerifyUpload
    \/ DeleteLogFile
    \/ RollbackUploadFailed
    \/ RollbackFileNotFound
    \/ RollbackException
    \/ NewAttempt

Spec == Init /\ [][Next]_vars

\* --------------------------------------- another writer of the log file

\* the process that produces the log (or anyone else) rewrites the file
\* between two statements of analyze_and_post
ModifyLog ==
    /\ fileExists
    /\ log_content <= MaxWrites
    /\ log_content' = log_content + 1
    /\ UNCHANGED <<pc, attempt, bucket_name, job_quantity, programmed, verified,
                   post_success, record_id, file_name, success,
                   rollback_success, handler, inserted_record, events, store,
                   fileExists, insertedId, removed, counted, file_content, peer>>

NextWriter == Next \/ ModifyLog

SpecWriter == Init /\ [][NextWriter]_vars

\* ------------------------------- a second instance of the application
\* Another running copy of the program (same bucket, same day, job and
\* quantity) executes upload_to_s3 step by step between the steps of this one.

PeerId == MaxAttempts + 1     \* marks the objects the second instance wrote

local == <<pc, attempt, bucket_name, job_quantity, programmed, verified,
           post_success, record_id, file_name, success, rollback_success,
           handler, inserted_record, events, fileExists, insertedId, removed,
           log_content, counted, file_content>>

\* the second instance enters upload_to_s3 with the base key
PeerStart ==
    /\ peer.pc = "off"
    /\ bucket_name
    /\ peer' = [pc |-> "probe", file_name |-> 0, denied |-> FALSE]
    /\ UNCHANGED <<local, store>>

\* while check_file_exists(...): file_name = ...-{sequence}
PeerProbeKey ==
    /\ peer.pc = "probe"
    /\ peer.file_name <= MaxKey
    /\ \E answer \in HeadAnswers(peer.file_name) :
        peer' = CASE CheckFileExists(answer) = "true" ->
                       [peer EXCEPT !.file_name = NextKey(@)]
                  [] CheckFileExists(answer) = "false" ->
                       [peer EXCEPT !.pc = "put",
                                    !.denied = @ \/ answer = "403"]
                  [] OTHER ->
                       [peer EXCEPT !.pc = "failed"]
    /\ UNCHANGED <<local, store>>

\* s3_client.put_object(Bucket, Key=file_name, Body=data)
PeerPutObject ==
    /\ peer.pc = "put"
    /\ \/ /\ archive' = (peer.file_name :> PeerId) @@ archive
          /\ peer' = [peer EXCEPT !.pc = "verify"]
       \/ /\ peer' = [peer EXCEPT !.pc = "failed"]
          /\ UNCHANGED archive
    /\ UNCHANGED <<local, db, nextId>>

\* if not check_file_exists(...): return False ...; return True, file_name
PeerVerifyUpload ==
    /\ peer.pc = "verify"
    /\ \E answer \in HeadAnswers(peer.file_name) :
        peer' = IF CheckFileExists(answer) = "true"
                THEN [peer EXCEPT !.pc = "committed"]
                ELSE [peer EXCEPT !.pc = "failed"]
    /\ UNCHANGED <<local, store>>

NextPeer ==
    \/ Next
    \/ PeerStart
    \/ PeerProbeKey
    \/ PeerPutObject
    \/ PeerVerifyUpload

SpecPeer == Init /\ [][NextPeer]_vars

\* ------------------------------------------ a probe that always says taken

\* one iteration of the key loop against a store whose head_object succeeds
\* for the key whatever the bucket holds.  The loop has no upper limit on
\* sequence; keys beyond MaxKey are folded onto two values and their probes
\* are not recorded, so that the endless loop is a cycle of the model.
FaultyProbe ==
    /\ pc = "probe"
    /\ IF file_name <= MaxKey
       THEN /\ file_name' = NextKey(file_name)
            /\ events' = Append(events, Call("exists", file_name, "200"))
       ELSE /\ file_name' = IF file_name = MaxKey + 1 THEN MaxKey + 2 ELSE MaxKey + 1
            /\ UNCHANGED events
    /\ UNCHANGED <<outside, counted, file_content, pc, attempt, bucket_name, job_quantity, programmed, verified,
                   post_success, record_id, success, rollback_success, handler,
                   inserted_record, store, fileExists, insertedId, removed>>

NextFaultyProbe == Next \/ FaultyProbe

\* analyze_and_post runs on: every call returns and the next statement is
\* executed; which answer a call gets is left open
SpecFaultyProbe ==
    Init /\ [][NextFaultyProbe]_vars /\ WF_vars(NextFaultyProbe)

\* ------------------------------------------------- reading the event log

\* the calls of the attempt without the notifications
IsCall(e) == e.op # "message"
Calls == SelectSeq(events, IsCall)
Indices(op) == {i \in 1 .. Len(events) : events[i].op = op}
Shown(text) ==
    \E i \in 1 .. Len(events) : events[i].op = "message" /\ events[i].res = text
Terminal == pc = "done"

\* ------------------------------------------------------------------ claims

\* the insert succeeded and upload_to_s3 did not return success (or was not
\* reached because reading the log bytes failed), and the attempt is over
UploadStageFailed == Terminal /\ post_success /\ ~success

\* C1: in every attempt whose insert succeeded and whose upload stage
\* failed, rollback_database is called exactly once, with the id of the row
\* that insert created, before the failure is reported; no attempt calls it
\* twice.
C1_RollbackExactlyOnce ==
    /\ Cardinality(Indices("deleteById")) <= 1
    /\ UploadStageFailed =>
         \E i \in Indices("deleteById") :
            /\ events[i].arg = insertedId
            /\ insertedId # None
            /\ \E j \in Indices("message") :
                  /\ i < j /\ j = Len(events)
                  /\ events[j].res \notin {"Alert", "Success", "Log File Deleted"}

\* an upload failure of the subtle kind: put returned, the second probe said absent
C1_Witness ==
    /\ UploadStageFailed
    /\ \E i \in Indices("put") : events[i].res = "ok"
    /\ \E i \in Indices("deleteById") : events[i].arg = insertedId

\* the attempt reported that the compensating delete failed
RollbackFailedReported ==
    \/ Shown("Upload Failed - Rolled Back/CRITICAL")
    \/ Shown("File Error/False")
    \/ Shown("Error/False")

\* the row created by this attempt's insert is still in the record store
RowSurvives == insertedId # None /\ insertedId \in db

\* the object this attempt put is in the archive
ArchivedByAttempt ==
    \E i \in Indices("put") :
        events[i].res = "ok" /\ events[i].arg \in DOMAIN archive

\* C2: when an attempt is over and the row it inserted still exists, the
\* object it put exists, unless the attempt reported a failed rollback.
C2_NoRowWithoutLog ==
    (Terminal /\ RowSurvives) => (ArchivedByAttempt \/ RollbackFailedReported)

\* both remote writes were confirmed: echo-verified insert, re-verified put
BothConfirmed == post_success /\ success

\* C3 as stated: at the end of an attempt the log file has been deleted if
\* and only if both remote writes were confirmed.
C3_DeletedIffConfirmed == Terminal => (removed <=> BothConfirmed)

\* C3 as amended: the log file is removed only if both remote writes were
\* confirmed; once both are confirmed delete_log_file is called exactly
\* once, and the file is removed exactly when that call's os.remove succeeded.
C3_DeletedOnlyIfConfirmed ==
    /\ removed => BothConfirmed
    /\ Indices("deleteSource") # {} => BothConfirmed
    /\ Terminal =>
         /\ BothConfirmed => Cardinality(Indices("deleteSource")) = 1
         /\ removed <=> (\E i \in Indices("deleteSource") : events[i].res = "removed")

\* both writes confirmed, deletion attempted, and the file is still there
C3_Witness ==
    /\ Terminal /\ BothConfirmed /\ ~removed
    /\ \E i \in Indices("deleteSource") : events[i].res = "remove raises"

\* C4: once the upload is confirmed, no failure of the source deletion makes
\* the attempt delete the database row: row and archive object both remain.
C4_NoRollbackAfterConfirm ==
    BothConfirmed =>
        /\ Indices("deleteById") = {}
        /\ Terminal => (RowSurvives /\ ArchivedByAttempt)

\* C5: the report "The log file has been deleted successfully" is produced
\* only when the file was actually removed.
C5_DeletedReportOnlyWhenRemoved == Shown("Log File Deleted") => removed

\* C6: the insert completes before any probe or put; a put that returned is
\* followed by a probe of the same key; delete_log_file is called only after
\* that probe answered that the object exists.
C6_StepOrder ==
    /\ \A i \in Indices("exists") \cup Indices("put") :
          \E j \in Indices("insert") : j < i /\ events[j].res = "row"
    /\ \A i \in Indices("put") :
          events[i].res = "ok" =>
             IF i = Len(events)
             THEN pc = "verify"
             ELSE events[i + 1] \in {Call("exists", events[i].arg, a) :
                                        a \in {"200", "404", "403", "500"}}
    /\ \A d \in Indices("deleteSource") :
          \E i \in Indices("put") :
             /\ i + 1 < d
             /\ events[i].res = "ok"
             /\ events[i + 1] = Call("exists", events[i].arg, "200")
             /\ \A k \in Indices("put") \cup Indices("exists") : k <= i + 1

\* the whole order ran: insert, probes, put, re-verification, deletion
C6_Witness ==
    /\ Terminal /\ removed
    /\ Cardinality(Indices("exists")) >= 3

\* C7: insert is called iff programmed >= quantity and verified >= quantity;
\* otherwise the attempt ends naming the programmed counter when
\* programmed < quantity, and the verified counter only when
\* programmed >= quantity and verified < quantity.
C7_Threshold ==
    pc # "idle" =>
        /\ Indices("insert") # {} =>
              (programmed >= job_quantity /\ verified >= job_quantity)
        /\ (programmed >= job_quantity /\ verified >= job_quantity) =>
              (pc = "post" \/ Indices("insert") # {})
        /\ Shown("Condition Not Met/programmed") <=> programmed < job_quantity
        /\ Shown("Condition Not Met/verified") <=>
              (programmed >= job_quantity /\ verified < job_quantity)
        /\ (programmed < job_quantity \/ verified < job_quantity) => Terminal

\* both counters below the quantity: the programmed counter is named
C7_Witness ==
    /\ Terminal
    /\ programmed < job_quantity /\ verified < job_quantity
    /\ Shown("Condition Not Met/programmed")

BelowThreshold ==
    Shown("Condition Not Met/programmed") \/ Shown("Condition Not Met/verified")

\* C8: an attempt that ends below the threshold makes no remote call and
\* does not touch the log file: record store, archive and file are as before.
C8_BelowThresholdNoEffect ==
    /\ [](BelowThreshold => (Terminal /\ Calls = <<>> /\ ~removed))
    /\ [][(BelowThreshold' /\ ~BelowThreshold) =>
              UNCHANGED <<db, nextId, archive, fileExists>>]_vars

\* a below-threshold end in a second attempt, with a row and an object present
C8_Witness ==
    /\ BelowThreshold /\ Terminal
    /\ db # {} /\ DOMAIN archive # {}

\* C9: post_to_database reports success and a record id only when the
\* echoed row has every submitted field with the submitted value; otherwise
\* (no row, a field missing or different, or an exception) it reports
\* failure and no record id.
C9_EchoVerified ==
    Indices("insert") # {} =>
        LET echoed(f, value) ==
                f \in DOMAIN inserted_record /\ inserted_record[f] = value
            echoOk == /\ echoed("job_order", Job)
                      /\ echoed("job_quantity", job_quantity)
                      /\ echoed("programmed", programmed)
                      /\ echoed("verified", verified)
                      /\ echoed("device", Device)
        IN /\ post_success <=> echoOk
           /\ post_success => (record_id # None /\ record_id = inserted_record["id"])
           /\ ~post_success => record_id = None

\* the backend stored and echoed the row with another quantity
C9_Witness ==
    /\ Indices("insert") # {}
    /\ "job_quantity" \in DOMAIN inserted_record
    /\ inserted_record["job_quantity"] # job_quantity
    /\ ~post_success /\ record_id = None

\* C10: when an attempt ends with the insert reported as failed, the record
\* store holds no row created by this attempt.
C10_InsertFailedNothingWritten ==
    (Terminal /\ Shown("Error/Failed to post")) => ~RowSurvives

\* C11: when an attempt ends with the upload reported as failed, the archive
\* holds no object written by this attempt.
C11_NoObjectAfterUploadFailed == UploadStageFailed => ~ArchivedByAttempt

\* C12: no put goes to a key that already holds an object: an object in the
\* archive is never replaced, over any sequence of attempts.
C12_NoOverwrite ==
    [][\A k \in DOMAIN archive :
          k \in DOMAIN archive' /\ archive'[k] = archive[k]]_vars

\* C13: whenever the upload stage failed and the compensating delete failed
\* too, the report differs from the rolled-back report and names the record id.
C13_RollbackFailureNamesRecord ==
    (UploadStageFailed /\ rollback_success = "False") =>
        /\ RollbackFailedReported
        /\ events[Len(events)].op = "message"
        /\ events[Len(events)].arg = record_id
        /\ record_id # None

\* C14 as stated: the advisory is shown exactly when both counters exceed
\* quantity + 10.
C14_AdvisoryWhenBothExceed ==
    pc # "idle" =>
        (Shown("Alert") <=> (/\ programmed > job_quantity + AdvisoryMargin
                             /\ verified > job_quantity + AdvisoryMargin))

\* C14 as amended: the advisory is shown exactly when the threshold is met
\* and at least one counter exceeds quantity + 10, and showing it never
\* stops the attempt: the insert is called all the same.
C14_AdvisoryWhenEitherExceeds ==
    pc # "idle" =>
        /\ Shown("Alert") <=>
              /\ programmed >= job_quantity /\ verified >= job_quantity
              /\ \/ programmed > job_quantity + AdvisoryMargin
                 \/ verified > job_quantity + AdvisoryMargin
        /\ Shown("Alert") =>
              /\ events[1] = Message("Alert")
              /\ pc = "post" \/ Indices("insert") # {}
              /\ Terminal => Indices("insert") # {}

\* only the programmed counter is above the margin, and the attempt went on
C14_Witness ==
    /\ Shown("Alert")
    /\ verified <= job_quantity + AdvisoryMargin
    /\ programmed > job_quantity + AdvisoryMargin
    /\ Indices("insert") # {}

\* the probes of the key loop: the existence checks made before any put
LoopProbes ==
    {i \in Indices("exists") : \A j \in Indices("put") : i < j}

\* C16: the key loop probes the base key, then -1, -2, ... without skipping
\* or repeating a suffix, goes on exactly while the probe reports the key
\* taken, and puts to the first key reported absent, after (suffix + 1)
\* probes; when no answer was permission-denied that key is the first free
\* key of the archive.
C16_KeySelection ==
    /\ \A i \in LoopProbes :
          /\ events[i].arg = Cardinality({j \in LoopProbes : j < i})
          /\ (\E j \in LoopProbes : j > i) => events[i].res = "200"
          /\ events[i].res = "200" =>
                \/ \E j \in LoopProbes : j > i
                \/ i = Len(events) /\ pc = "probe"
    /\ pc = "probe" => file_name = Cardinality(LoopProbes)
    /\ \A p \in Indices("put") :
          /\ p - 1 \in LoopProbes
          /\ events[p - 1].arg = events[p].arg
          /\ events[p - 1].res \in {"404", "403"}
          /\ Cardinality(LoopProbes) = events[p].arg + 1
    /\ pc = "put" =>
          /\ Cardinality(LoopProbes) = file_name + 1
          /\ (\A i \in LoopProbes : events[i].res # "403") =>
                /\ file_name \notin DOMAIN archive
                /\ \A k \in 0 .. file_name - 1 : k \in DOMAIN archive

\* base key and -1 taken, -2 free: -2 is selected after three probes
C16_Witness ==
    /\ pc = "put" /\ file_name = 2
    /\ Cardinality(LoopProbes) = 3
    /\ \E i \in LoopProbes : events[i] = Call("exists", 2, "404")

\* C18: check_file_exists is true exactly for a successful head request,
\* false for 404 and 403, and raises for any other error; upload_to_s3
\* turns that error into an upload failure, never into a free key or a
\* verified upload.
C18_ProbeAnswers ==
    \A i \in Indices("exists") :
        LET answer == events[i].res
            last == i = Len(events)
        IN IF i \in LoopProbes
           THEN CASE answer = "200" ->
                       IF last THEN pc = "probe" /\ file_name = events[i].arg + 1
                       ELSE events[i + 1].op = "exists"
                  [] answer \in {"404", "403"} ->
                       IF last THEN pc = "put" /\ file_name = events[i].arg
                       ELSE events[i + 1].op = "put"
                  [] OTHER ->
                       /\ ~success /\ handler = "else" /\ pc \in {"rollback", "done"}
                       /\ Indices("put") = {}
                       /\ ~last => events[i + 1].op = "deleteById"
           ELSE CASE answer = "200" ->
                       success /\ events[i + 1] = Message("Success")
                  [] OTHER ->
                       /\ ~success /\ handler = "else" /\ pc \in {"rollback", "done"}
                       /\ ~Shown("Success")
                       /\ ~last => events[i + 1].op = "deleteById"

\* another store error on the second probe ended the attempt as an upload failure
C18_Witness ==
    /\ Terminal /\ UploadStageFailed
    /\ \E i \in Indices("exists") : i \notin LoopProbes /\ events[i].res = "500"
    /\ \E i \in LoopProbes : events[i].res = "403"

\* the final reports of an attempt: every notification but the advisory and
\* the intermediate "Success" box
Outcomes ==
    {i \in Indices("message") : events[i].res \notin {"Alert", "Success"}}

\* C15: every attempt whose insert succeeded reaches a terminal outcome,
\* and exactly one, as long as every remote call returns.
C15_ReachesOneOutcome ==
    /\ [](Terminal => Cardinality(Outcomes) = 1)
    /\ (post_success ~> Terminal)

\* C17: the key loop always comes to an end, also when the probe reports
\* every key as taken: it then stops with an upload failure and a rollback.
C17_KeyLoopEnds == (pc = "probe") ~> (pc \in {"put", "rollback"})

\* no probe of the key loop, here or in the second instance, was answered
\* with permission denied
NoProbeDenied ==
    /\ ~peer.denied
    /\ \A i \in LoopProbes : events[i].res # "403"

\* C19: two attempts for the same day, job and quantity that run at the same
\* time never both end as committed under one key, and the object either of
\* them confirmed is not replaced by the other's put.  Stated for the runs
\* in which every probe of the key loops is answered by the bucket's content
\* (200 or 404), so that a violation is due to the interleaving alone.
C19_NoSharedKey ==
    NoProbeDenied =>
        /\ ~(success /\ peer.pc = "committed" /\ peer.file_name = file_name)
        /\ success => archive[file_name] = attempt
        /\ peer.pc = "committed" => archive[peer.file_name] = PeerId

\* C20: the bytes a committed attempt archived are the log content its
\* counters were computed from, whatever other writers did to the file.
C20_ArchivedIsCounted == BothConfirmed => file_content = counted

TypeOK ==
    /\ pc \in {"idle", "post", "read", "upload", "probe", "put", "verify",
               "delete", "rollback", "done"}
    /\ attempt \in 1 .. MaxAttempts
    /\ record_id \in Nat
    /\ file_name \in 0 .. MaxKey + 2
    /\ rollback_success \in {"none", "True", "False"}
    /\ log_content \in 1 .. MaxWrites + 1
    /\ peer.pc \in {"off", "probe", "put", "verify", "committed", "failed"}
====
